---- MODULE Spec2Model ----
(***************************************************************************)
(* Model of the video ingestion service: the two Flask applications        *)
(* src/video-audio-whisper.py ("whisper") and src/rough.py ("rough"),      *)
(* which share one Supabase project (row store + object store).            *)
(*                                                                         *)
(* Conventions                                                             *)
(*  - times are integers in milliseconds; a frame_timestamp is held in     *)
(*    thousandths of a second (whisper stores whole seconds n as n*1000,   *)
(*    rough stores round(pos/1000, 3), i.e. pos itself);                   *)
(*  - a transcript text is [literal, lines]: a literal string, or the      *)
(*    "\n".join of its lines (of no line: the empty string);               *)
(*  - a storage path f"{transcript_id}/frame_{sec}.jpg" is the record      *)
(*    [dir |-> transcript_id, frame |-> sec].                              *)
(***************************************************************************)
EXTENDS Integers, Sequences, FiniteSets, TLC

\* ---------------------------------------------------------------- bounds
MaxSeconds == 3      \* longest video (whole seconds) given to the sampler harness
MaxSegments == 1     \* most segments the speech-to-text service returns

\* ------------------------------------------------------ program constants
SizeFloor == 1000    \* file_size > 1000
DefaultFps == 25     \* cap.get(CAP_PROP_FPS) or 25

\* two upload requests in flight at once, each served by either application
Requests == {1, 2}
Apps == {"whisper", "rough"}
Bucket == "Ericc_video_frames"
EmptyText == [literal |-> "", lines |-> <<>>]
NoAudioSentinel == [literal |-> "[No audio found in video]", lines |-> <<>>]
Null == [null |-> TRUE]
NoVideo == [opens |-> FALSE, fps |-> 0, frames |-> 0, empty |-> TRUE]

VARIABLES
    pc,               \* request handler position
    app,              \* which application serves the request
    form,             \* the request's fields: name, phone, and the kind of item sent
    file_bytes,       \* the video held by the handler
    transcript,       \* timestamped_transcript / transcript_text
    tid,              \* transcript_id returned by the transcript insert (0: none)
    response,         \* what the handler returned
    thread,           \* whisper's background thread: none | running | finished
    pf,               \* activation of process_frames_and_upload per request
    io,               \* kinds of external work done on behalf of a request ("audio":
                      \* an audio buffer was extracted)
    fails,            \* kinds of external work that failed for a request
    transcript_table, \* rows of table "transcript"
    frame_table,      \* rows of table "frame"
    storage,          \* object paths present in the bucket
    tmpfiles,         \* temporary files on disk
    xa                \* harness activation of extract_audio_from_video

vars == <<pc, app, form, file_bytes, transcript, tid, response, thread, pf, io, fails,
          transcript_table, frame_table, storage, tmpfiles, xa>>

\* ------------------------------------------------- extract_audio_from_video
RunOutcomes == {"ok", "nonzero", "timeout", "oserror"}
AudioSizes == {0, 999, 1000, 1001, 1023, 1024, 4096}
ExtractEnvs == [write : BOOLEAN, mkstemp : BOOLEAN, run : RunOutcomes,
                exists : BOOLEAN, size : AudioSizes, read : BOOLEAN]

\* subprocess.run raised (TimeoutExpired, or OSError when ffmpeg cannot start)
RunRaised(env) == env.run \in {"timeout", "oserror"}

\* lines 39-83: the value the try block yields; every exception is caught at 80
ExtractTryStrict(env) ==
    IF RunRaised(env) THEN "None"
    ELSE IF env.run # "ok" THEN "None"
    ELSE IF env.exists
         THEN IF env.size >= 1024
              THEN (IF env.read THEN "bytes" ELSE "None")
              ELSE "None"
         ELSE "None"

ExtractTry(env) ==
    IF RunRaised(env) THEN "None"
    ELSE IF env.exists
         THEN IF env.size > SizeFloor
              THEN (IF env.read THEN "bytes" ELSE "None")
              ELSE "None"
         ELSE "None"

\* temp files on disk when the finally block starts: the video file, and the audio
\* file mkstemp created unless the utility ran and left none
FilesBeforeFinally(env) ==
    {"video"} \cup (IF RunRaised(env) \/ env.exists THEN {"audio"} ELSE {})

\* lines 84-89
ExtractFinally(files) == files \ {f \in {"video", "audio"} : f \in files}

\* lines 30-37, up to the wait in subprocess.run: the video temp file is written and
\* the audio temp file created, outside the try; a failure of either raises with
\* the video file left.  [ret |-> "raise" | "running", files |-> temp files on disk]
ExtractBeginResult(env) ==
    IF ~env.write THEN [ret |-> "raise", files |-> {"video"}]
    ELSE IF ~env.mkstemp THEN [ret |-> "raise", files |-> {"video"}]
    ELSE [ret |-> "running", files |-> {"video", "audio"}]

\* lines 48-89, from the return of subprocess.run (or its exception) to the end
ExtractEndResult(env) ==
    [ret |-> ExtractTry(env), files |-> ExtractFinally(FilesBeforeFinally(env))]

\* lines 27-89: [ret |-> "raise" | "None" | "bytes", files |-> temp files left]
extract_audio_from_video(env) ==
    IF ExtractBeginResult(env).ret = "raise" THEN ExtractBeginResult(env)
    ELSE ExtractEndResult(env)

\* ------------------------------------------------------- transcript format
\* format_timestamp(seconds) takes a binary float; the model holds the time as the
\* integer ms with seconds = the double nearest ms/1000.  millis is
\* int((seconds - int(seconds)) * 1000): the product is rounded to a double and then
\* truncated, so it is ms % 1000 or one less.  The double arithmetic is followed
\* with small integers: the rounding of ms/1000 to 53 bits leaves the remainder
\* RoundingRemainder(ms) (in thousandths of the last bit), and a value rounded down
\* far enough stays below the whole number of milliseconds after the product.
RECURSIVE Pow2Mod1000(_)
Pow2Mod1000(n) == IF n = 0 THEN 1 ELSE (2 * Pow2Mod1000(n - 1)) % 1000
RECURSIVE Pow2(_)
Pow2(n) == IF n = 0 THEN 1 ELSE 2 * Pow2(n - 1)
RECURSIVE FloorLog2(_)
FloorLog2(x) == IF x < 2 THEN 0 ELSE 1 + FloorLog2(x \div 2)
RECURSIVE HalvingsBelowOne(_, _)
HalvingsBelowOne(ms, n) == IF ms * Pow2(n) >= 1000 THEN n ELSE HalvingsBelowOne(ms, n + 1)

\* the binary exponent of the double nearest ms/1000 (ms >= 1)
BinaryExponent(ms) ==
    IF ms >= 1000 THEN FloorLog2(ms \div 1000) ELSE 0 - HalvingsBelowOne(ms, 1)

RoundingRemainder(ms) == ((ms % 1000) * Pow2Mod1000(52 - BinaryExponent(ms))) % 1000

\* int((seconds - int(seconds)) * 1000) falls one short of ms % 1000
MillisTruncated(ms) ==
    LET r   == ms % 1000
        rem == RoundingRemainder(ms)
        j   == FloorLog2(r)
        x   == j - BinaryExponent(ms) - (IF Pow2(j) = r THEN 2 ELSE 1)
    IN  /\ r >= 1
        /\ rem >= 1 /\ rem < 500
        /\ x < 0 \/ (x < 9 /\ rem > Pow2(x))

\* <<h, m, s, millis>> stands for f"{h:02}:{m:02}:{s:02},{millis:03}"
format_timestamp(ms) ==
    LET millis  == IF MillisTruncated(ms) THEN (ms % 1000) - 1 ELSE ms % 1000
        seconds == ms \div 1000
    IN  <<seconds \div 3600, (seconds \div 60) % 60, seconds % 60, millis>>

\* the i-th segment of a speech-to-text answer (1.68 s each: 1.68 is formatted
\* ",679" and 3.36 ",359"); text carries surrounding blanks
SegmentAt(i) == [start |-> (i - 1) * 1680, end |-> i * 1680,
                 text |-> [blanks |-> TRUE, body |-> "words"]]
Segments(n) == [i \in 1..n |-> SegmentAt(i)]

strip(text) == [blanks |-> FALSE, body |-> text.body]

\* one line f"[{start} --> {end}] {text}" per segment, in input order
segments_to_timestamped_text(segments) ==
    [literal |-> "",
     lines |-> [i \in 1..Len(segments) |->
                  [start |-> format_timestamp(segments[i].start),
                   end   |-> format_timestamp(segments[i].end),
                   text  |-> strip(segments[i].text)]]]

\* ------------------------------------------------------------------ inputs
SttOutcomes == {"ok", "status", "neterr"}
InsertOutcomes == {"ok", "raise", "nodata"}
UploadOutcomes == {"ok", "put_fail", "url_fail"}
DecodeKinds == {"ok", "noret", "noframe", "noencode", "raise"}
PosOffsets == {0, 500}

Video(o, f, n) == [opens |-> o, fps |-> f, frames |-> n, empty |-> FALSE]
\* videos the requests carry: bytes no decoder opens, a sub-second clip with one
\* frame, and a one-second clip whose fps the decoder does not report
PipeVideos == {Video(FALSE, 0, 0), Video(TRUE, 2, 1), Video(TRUE, 0, 30)}
Items == {[kind |-> "none", valid |-> TRUE, video |-> NoVideo]}
         \cup [kind : {"file"}, valid : {TRUE}, video : PipeVideos \cup {NoVideo}]
         \cup [kind : {"url"}, valid : BOOLEAN, video : PipeVideos \cup {NoVideo}]
\* body: "fields" is form-data or a JSON object whose fields can be read;
\* "not_object" a JSON body that is no object (null, a list, a string), which has no
\* field at all; "oversize" a body over MAX_CONTENT_LENGTH (15 MB)
Forms == [name : {"", "Ann"}, phone : {"", "555"}, item : Items, body : {"fields"}]
         \cup {[name |-> "", phone |-> "", body |-> "not_object",
                 item |-> [kind |-> "none", valid |-> TRUE, video |-> NoVideo]]}
         \cup [name : {"", "Ann"}, phone : {"555"}, body : {"oversize"},
               item : {[kind |-> "file", valid |-> TRUE, video |-> Video(TRUE, 0, 30)]}]

NoForm == [name |-> "", phone |-> "", kind |-> "none", body |-> "fields"]
\* a response is the JSON object returned, with its status.  Where the code puts
\* str(e) in the error text, the text of an exception raised by a collaborator is
\* written "exception", and whisper's "Upload or transcription failed: {e}" and
\* "Transcription failed: {e}" are written without the exception's text
NoResponse == [status |-> 0]
Error(code, msg) == [status |-> code, error |-> msg]
Success(id, text) ==
    [status |-> 200,
     message |-> "Video processed successfully. Frames are being extracted in the background.",
     transcript_id |-> id, transcript |-> text]
RoughSuccess(id, n, text) ==
    [status |-> 200, message |-> "Video processed successfully",
     transcript_id |-> id, frame_count |-> n, transcript |-> text]
\* the handler registered for RequestEntityTooLarge
handle_large_file(a) ==
    Error(413, IF a = "whisper" THEN "File too large. Max 15 MB allowed."
               ELSE "File too large. Max 15MB.")
NoCall == [pc |-> "none", duration |-> 0, sec |-> 0, frames_metadata |-> <<>>, encoded |-> <<>>]
NoExtract == [pc |-> "none", env |-> [write |-> TRUE, mkstemp |-> TRUE, run |-> "ok",
              exists |-> TRUE, size |-> 0, read |-> TRUE], ret |-> "None", files |-> {}]

Init ==
    /\ pc = [r \in Requests |-> "idle"]
    /\ app = [r \in Requests |-> "whisper"]
    /\ form = [r \in Requests |-> NoForm]
    /\ file_bytes = [r \in Requests |-> NoVideo]
    /\ transcript = [r \in Requests |-> EmptyText]
    /\ tid = [r \in Requests |-> 0]
    /\ response = [r \in Requests |-> NoResponse]
    /\ thread = [r \in Requests |-> "none"]
    /\ pf = [r \in Requests |-> NoCall]
    /\ io = [r \in Requests |-> {}]
    /\ fails = [r \in Requests |-> {}]
    /\ transcript_table = <<>>
    /\ frame_table = <<>>
    /\ storage = {}
    /\ tmpfiles = {}
    /\ xa = NoExtract

\* ------------------------------------------------------- upload_file: input
Rejected(resp) == [ok |-> FALSE, resp |-> resp, bytes |-> NoVideo, io |-> {}, fails |-> {}]

\* whisper lines 237-250 (and 296-298): [ok, resp, bytes, io, fails].  Reading
\* request.form of an oversize body raises RequestEntityTooLarge inside the try
WhisperRead(f) ==
    IF f.body = "oversize" THEN Rejected(Error(500, "Upload or transcription failed"))
    ELSE IF f.name = "" \/ f.phone = "" THEN Rejected(Error(400, "Name and phone are required"))
    ELSE IF f.item.kind # "file" THEN Rejected(Error(400, "No video file provided"))
    ELSE IF f.item.video.empty THEN Rejected(Error(400, "Uploaded video is empty"))
    ELSE [ok |-> TRUE, resp |-> NoResponse, bytes |-> f.item.video, io |-> {}, fails |-> {}]

\* rough lines 34-44: [raised, content, io]; dl is whether the GET succeeds
download_video_from_url(item, dl) ==
    IF ~item.valid THEN [raised |-> TRUE, content |-> NoVideo, io |-> {}]
    ELSE IF ~dl THEN [raised |-> TRUE, content |-> NoVideo, io |-> {"fetch"}]
    ELSE [raised |-> FALSE, content |-> item.video, io |-> {"fetch"}]

\* rough lines 133-154 (an exception reaches the handler at 183-185): reading an
\* oversize body raises RequestEntityTooLarge, and data.get on a JSON body that is
\* no object raises AttributeError, both before the fields are tested
RoughRead(f, dl) ==
    IF f.body = "oversize" THEN Rejected(Error(500, "413 Request Entity Too Large"))
    ELSE IF f.body = "not_object"
    THEN Rejected(Error(500, "object has no attribute 'get'"))
    ELSE IF f.name = "" \/ f.phone = "" THEN Rejected(Error(400, "Name and phone are required"))
    ELSE IF f.item.kind = "none" THEN Rejected(Error(400, "No video or video_url provided"))
    ELSE LET got == IF f.item.kind = "file"
                    THEN [raised |-> FALSE, content |-> f.item.video, io |-> {}]
                    ELSE download_video_from_url(f.item, dl)
         IN  IF got.raised
             THEN [ok |-> FALSE, resp |-> Error(500, "exception"), bytes |-> NoVideo, io |-> got.io, fails |-> {"fetch"}]
             ELSE IF got.content.empty
             THEN [ok |-> FALSE, resp |-> Error(400, "Video is empty"), bytes |-> NoVideo, io |-> got.io, fails |-> {}]
             ELSE [ok |-> TRUE, resp |-> NoResponse, bytes |-> got.content, io |-> got.io, fails |-> {}]

\* where RequestEntityTooLarge is raised for an oversize body: in the view, when it
\* reads the body (the handler's except answers), or outside it (handle_large_file
\* answers)
RaisedIn == {"view", "dispatch"}

\* what reading a request can come to, over every form and download outcome
Readings ==
    {[app |-> a,
      form |-> [name |-> f.name, phone |-> f.phone, kind |-> f.item.kind, body |-> f.body],
      out |-> IF f.body = "oversize" /\ w = "dispatch" THEN Rejected(handle_large_file(a))
              ELSE IF a = "whisper" THEN WhisperRead(f) ELSE RoughRead(f, dl)] :
        a \in Apps, f \in Forms, dl \in BOOLEAN, w \in RaisedIn}

Receive(r) ==
    /\ pc[r] = "idle"
    /\ \E x \in Readings :
         /\ app' = [app EXCEPT ![r] = x.app]
         /\ form' = [form EXCEPT ![r] = x.form]
         /\ file_bytes' = [file_bytes EXCEPT ![r] = x.out.bytes]
         /\ response' = [response EXCEPT ![r] = x.out.resp]
         /\ io' = [io EXCEPT ![r] = x.out.io]
         /\ fails' = [fails EXCEPT ![r] = x.out.fails]
         /\ pc' = [pc EXCEPT ![r] = IF x.out.ok THEN "read" ELSE "done"]
    /\ UNCHANGED <<transcript, tid, thread, pf, transcript_table, frame_table,
                   storage, tmpfiles, xa>>

\* ------------------------------------------------------------ transcription
\* the speech-to-text request is sent whatever the extraction returned
SendsAlways(audio) == TRUE

\* whisper lines 110-118: with no audio the function returns None at once
SendsAudio(audio) == audio = "bytes"

\* whisper lines 120-137: the audio is posted; a status other than 200 raises
WhisperPost(stt, n) ==
    IF stt # "ok"
    THEN [ret |-> "raise", segments |-> <<>>, io |-> {"stt"}, fails |-> {"stt"}]
    ELSE [ret |-> "json", segments |-> Segments(n), io |-> {"stt"}, fails |-> {}]

\* rough lines 47-64: the video itself is posted; raise_for_status raises
RoughTranscribeVideo(stt, n) ==
    IF stt # "ok"
    THEN [ret |-> "raise", segments |-> <<>>, io |-> {"stt"}, fails |-> {"stt"}]
    ELSE [ret |-> "json", segments |-> Segments(n), io |-> {"stt"}, fails |-> {}]

\* a failed transcription degrades to the sentinel instead of ending the request
WhisperTranscriptDegrade(tv) ==
    IF tv.ret = "json"
    THEN [ok |-> TRUE, text |-> segments_to_timestamped_text(tv.segments), resp |-> NoResponse]
    ELSE [ok |-> TRUE, text |-> NoAudioSentinel, resp |-> NoResponse]

\* an answer without segments is replaced by the sentinel
WhisperTranscriptSubstitutes(tv) ==
    IF tv.ret = "raise"
    THEN [ok |-> FALSE, text |-> EmptyText, resp |-> Error(500, "Transcription failed")]
    ELSE IF tv.ret = "None" \/ tv.segments = <<>>
    THEN [ok |-> TRUE, text |-> NoAudioSentinel, resp |-> NoResponse]
    ELSE [ok |-> TRUE, text |-> segments_to_timestamped_text(tv.segments), resp |-> NoResponse]

\* whisper lines 253-266: [ok, text, resp]
WhisperTranscript(tv) ==
    IF tv.ret = "raise"
    THEN [ok |-> FALSE, text |-> EmptyText, resp |-> Error(500, "Transcription failed")]
    ELSE IF tv.ret = "None"
    THEN [ok |-> TRUE, text |-> NoAudioSentinel, resp |-> NoResponse]
    ELSE [ok |-> TRUE, text |-> segments_to_timestamped_text(tv.segments), resp |-> NoResponse]

\* rough lines 157-159, and 183-185 for an exception
RoughTranscript(tv) ==
    IF tv.ret = "raise"
    THEN [ok |-> FALSE, text |-> EmptyText, resp |-> Error(500, "exception")]
    ELSE [ok |-> TRUE, text |-> segments_to_timestamped_text(tv.segments), resp |-> NoResponse]

\* what the speech-to-text call can come to in each application
Transcriptions(a) ==
    {IF a = "whisper" THEN WhisperPost(stt, n) ELSE RoughTranscribeVideo(stt, n) :
        stt \in SttOutcomes, n \in 0..MaxSegments}
WhisperTranscriptions == Transcriptions("whisper")
RoughTranscriptions == Transcriptions("rough")

\* what the two halves of extract_audio_from_video can come to
ExtractBegins == {ExtractBeginResult(env) : env \in ExtractEnvs}
ExtractEnds == {ExtractEndResult(env) : env \in {e \in ExtractEnvs : e.write /\ e.mkstemp}}
ExtractFiles(r) == {<<r, "video">>, <<r, "audio">>}
NoJson == [ret |-> "None", segments |-> <<>>, io |-> {}, fails |-> {}]
Raised == [ret |-> "raise", segments |-> <<>>, io |-> {}, fails |-> {}]

\* whisper lines 255 -> 112 -> 30-47: transcribe_video_verbose calls
\* extract_audio_from_video, which writes its temp files and starts the utility; an
\* exception here reaches the handler at 264-266
ExtractBegin(r) ==
    /\ pc[r] = "read"
    /\ app[r] = "whisper"
    /\ \E x \in ExtractBegins :
         LET out == WhisperTranscript(Raised)
         IN  /\ tmpfiles' = tmpfiles \cup {<<r, f>> : f \in x.files}
             /\ io' = [io EXCEPT ![r] = @ \cup {"tmpfile"}]
             /\ fails' = [fails EXCEPT ![r] = IF x.ret = "raise" THEN @ \cup {"tmpfile"} ELSE @]
             /\ response' = [response EXCEPT ![r] = IF x.ret = "raise" THEN out.resp ELSE @]
             /\ pc' = [pc EXCEPT ![r] = IF x.ret = "raise" THEN "done" ELSE "extracting"]
    /\ UNCHANGED <<app, form, file_bytes, transcript, thread, tid, pf, transcript_table,
                   frame_table, storage, xa>>

\* whisper lines 48-89 and 114-118, 258-259: the utility has ended (or timed out),
\* the output is read and the temp files removed; without audio the handler takes
\* the sentinel, with audio the request to the speech-to-text service is sent
ExtractEnd(r) ==
    /\ pc[r] = "extracting"
    /\ \E x \in ExtractEnds :
         LET out == WhisperTranscript(NoJson)
         IN  /\ tmpfiles' = (tmpfiles \ ExtractFiles(r)) \cup {<<r, f>> : f \in x.files}
             /\ io' = [io EXCEPT ![r] = @ \cup {"subprocess"}
                                           \cup (IF x.ret = "bytes" THEN {"audio"} ELSE {})]
             /\ transcript' = [transcript EXCEPT ![r] = IF SendsAudio(x.ret) THEN @ ELSE out.text]
             /\ pc' = [pc EXCEPT ![r] = IF SendsAudio(x.ret) THEN "posting" ELSE "transcribed"]
    /\ UNCHANGED <<app, form, file_bytes, response, fails, thread, tid, pf,
                   transcript_table, frame_table, storage, xa>>

\* the speech-to-text call and what the handler makes of its answer: whisper lines
\* 133-137 and 260-266, rough lines 47-64 and 157-159
Transcribe(r) ==
    /\ \/ app[r] = "whisper" /\ pc[r] = "posting"
       \/ app[r] = "rough" /\ pc[r] = "read"
    /\ \E tv \in IF app[r] = "whisper" THEN WhisperTranscriptions ELSE RoughTranscriptions :
         LET out == IF app[r] = "whisper" THEN WhisperTranscript(tv) ELSE RoughTranscript(tv)
         IN  /\ transcript' = [transcript EXCEPT ![r] = out.text]
             /\ response' = [response EXCEPT ![r] = out.resp]
             /\ io' = [io EXCEPT ![r] = @ \cup tv.io]
             /\ fails' = [fails EXCEPT ![r] = @ \cup tv.fails]
             /\ pc' = [pc EXCEPT ![r] = IF out.ok THEN "transcribed" ELSE "done"]
    /\ UNCHANGED <<app, form, file_bytes, thread, tid, pf, transcript_table,
                   frame_table, storage, tmpfiles, xa>>

\* ---------------------------------------------------------- transcript row
\* the id the store assigns to the next transcript row
NextId == Len(transcript_table) + 1

\* the row carries a number read from the store: its greatest number plus one
TranscriptPayloadNumbered(r) ==
    [id |-> NextId, name |-> form[r].name, phoneNumber |-> form[r].phone,
     transcript |-> transcript[r], uploadNumber |-> Len(transcript_table) + 1]

\* whisper lines 269-273, rough lines 162-166; id is what the store adds to the row
transcript_payload(r) ==
    [id |-> NextId, name |-> form[r].name, phoneNumber |-> form[r].phone,
     transcript |-> transcript[r]]

\* the activation a caller of process_frames_and_upload starts with
Called == [NoCall EXCEPT !.pc = "enter"]

\* an insert that returned no row is taken for a success
InsertResultUnchecked(a, ins) ==
    IF ins = "raise"
    THEN [ok |-> FALSE, resp |-> Error(500, "exception")]
    ELSE [ok |-> TRUE, resp |-> NoResponse]

\* whisper lines 275-279, rough lines 168-172: [ok, resp]; resp on failure
InsertResult(a, ins) ==
    IF ins = "ok" THEN [ok |-> TRUE, resp |-> NoResponse]
    ELSE IF ins = "raise"
    THEN [ok |-> FALSE,
          resp |-> Error(500, IF a = "whisper" THEN "Upload or transcription failed" ELSE "exception")]
    ELSE [ok |-> FALSE,
          resp |-> Error(500, IF a = "whisper" THEN "Failed to save transcript" ELSE "exception")]

InsertTranscript(r) ==
    /\ pc[r] = "transcribed"
    /\ \E ins \in InsertOutcomes :
         LET out == InsertResult(app[r], ins)
         IN  /\ io' = [io EXCEPT ![r] = @ \cup {"transcript_row"}]
             /\ fails' = [fails EXCEPT ![r] = IF out.ok THEN @ ELSE @ \cup {"transcript_row"}]
             /\ transcript_table' = IF ins = "ok"
                                    THEN Append(transcript_table, transcript_payload(r))
                                    ELSE transcript_table
             /\ tid' = [tid EXCEPT ![r] = IF out.ok THEN NextId ELSE 0]
             /\ response' = [response EXCEPT ![r] = out.resp]
             /\ pf' = [pf EXCEPT ![r] = IF out.ok /\ app[r] = "rough" THEN Called ELSE @]
             /\ pc' = [pc EXCEPT ![r] = IF ~out.ok THEN "done"
                                        ELSE IF app[r] = "whisper" THEN "inserted"
                                        ELSE "frames"]
    /\ UNCHANGED <<app, form, file_bytes, transcript, thread, frame_table, storage,
                   tmpfiles, xa>>

\* the thread is started as soon as the transcript is at hand, before the insert
StartThreadBeforeInsert(r) ==
    /\ pc[r] = "transcribed"
    /\ app[r] = "whisper"
    /\ thread' = [thread EXCEPT ![r] = "running"]
    /\ pf' = [pf EXCEPT ![r] = Called]
    /\ pc' = [pc EXCEPT ![r] = "started"]
    /\ UNCHANGED <<app, form, file_bytes, transcript, tid, response, io, fails,
                   transcript_table, frame_table, storage, tmpfiles, xa>>

\* whisper lines 283-288: thread.start() may fail to start a thread (line 296)
StartThread(r) ==
    /\ pc[r] = "inserted"
    /\ app[r] = "whisper"
    /\ \E started \in BOOLEAN :
         /\ thread' = [thread EXCEPT ![r] = IF started THEN "running" ELSE @]
         /\ fails' = [fails EXCEPT ![r] = IF started THEN @ ELSE @ \cup {"thread"}]
         /\ pf' = [pf EXCEPT ![r] = IF started THEN Called ELSE @]
         /\ response' = [response EXCEPT ![r] =
                IF started THEN @ ELSE Error(500, "Upload or transcription failed")]
         /\ pc' = [pc EXCEPT ![r] = IF started THEN "started" ELSE "done"]
    /\ UNCHANGED <<app, form, file_bytes, transcript, tid, io, transcript_table,
                   frame_table, storage, tmpfiles, xa>>

\* the handler joins the thread before it answers
RespondAfterJoin(r) ==
    /\ pc[r] = "started"
    /\ thread[r] = "finished"
    /\ response' = [response EXCEPT ![r] = Success(tid[r], transcript[r])]
    /\ pc' = [pc EXCEPT ![r] = "done"]
    /\ UNCHANGED <<app, form, file_bytes, transcript, tid, thread, pf, io, fails,
                   transcript_table, frame_table, storage, tmpfiles, xa>>

\* answering the request stops the task it started
RespondCancelsTask(r) ==
    /\ pc[r] = "started"
    /\ response' = [response EXCEPT ![r] = Success(tid[r], transcript[r])]
    /\ pc' = [pc EXCEPT ![r] = "done"]
    /\ thread' = [thread EXCEPT ![r] = IF @ = "running" THEN "cancelled" ELSE @]
    /\ pf' = [pf EXCEPT ![r].pc = IF thread[r] = "running" THEN "cancelled" ELSE @]
    /\ UNCHANGED <<app, form, file_bytes, transcript, tid, io, fails,
                   transcript_table, frame_table, storage, tmpfiles, xa>>

\* whisper lines 290-294
Respond(r) ==
    /\ pc[r] = "started"
    /\ response' = [response EXCEPT ![r] = Success(tid[r], transcript[r])]
    /\ pc' = [pc EXCEPT ![r] = "done"]
    /\ UNCHANGED <<app, form, file_bytes, transcript, tid, thread, pf, io, fails,
                   transcript_table, frame_table, storage, tmpfiles, xa>>

\* ------------------------------------------------ process_frames_and_upload
\* fps = cap.get(cv2.CAP_PROP_FPS) or 25
EffectiveFps(v) == IF v.fps = 0 THEN DefaultFps ELSE v.fps

\* the duration is rounded up, so that a clip under one second is sampled once
DurationRoundedUp(v) == (v.frames + EffectiveFps(v) - 1) \div EffectiveFps(v)

\* duration = int(total_frames / fps)
Duration(v) == v.frames \div EffectiveFps(v)

\* int(round(ms / 1000.0)): Python rounds a half to the even neighbour
RoundSeconds(ms) ==
    LET q == ms \div 1000
        rem == ms % 1000
    IN  IF rem < 500 THEN q
        ELSE IF rem > 500 THEN q + 1
        ELSE IF q % 2 = 0 THEN q ELSE q + 1

\* whisper rounds a half up
FrameTimestampHalfUp(a, pos_ms) ==
    IF a = "whisper" THEN 1000 * ((pos_ms + 500) \div 1000) ELSE pos_ms

\* the frame_timestamp recorded from the position pos_ms the decoder reports after
\* the read, in thousandths: whisper lines 179-180 and 199, rough line 100
FrameTimestamp(a, pos_ms) ==
    IF a = "whisper" THEN 1000 * RoundSeconds(pos_ms) ELSE pos_ms

\* the object name lacks the transcript id
FilePathWithoutId(t, sec) == [dir |-> 0, frame |-> sec]

\* f"{transcript_id}/frame_{sec}.jpg"
file_path(t, sec) == [dir |-> t, frame |-> sec]
get_public_url(path) == [bucket |-> Bucket, path |-> path]

\* whisper lines 188-195, rough lines 108-116: [url, put]
UploadFrame(path, u) ==
    IF u = "ok" THEN [url |-> get_public_url(path), put |-> {path}]
    ELSE IF u = "url_fail" THEN [url |-> Null, put |-> {path}]
    ELSE [url |-> Null, put |-> {}]

\* a frame whose upload failed is dropped
SampleSecondDropOnFailure(a, t, sec, d, off, u) ==
    LET none == [raised |-> FALSE, produced |-> FALSE, row |-> Null, put |-> {}]
        up   == UploadFrame(file_path(t, sec), u)
    IN  IF d = "raise" THEN [none EXCEPT !.raised = TRUE]
        ELSE IF d = "noframe" /\ a = "rough" THEN [none EXCEPT !.raised = TRUE]
        ELSE IF d # "ok" THEN none
        ELSE IF up.url = Null THEN [none EXCEPT !.put = up.put]
        ELSE [raised |-> FALSE, produced |-> TRUE,
              row |-> [transcript_id |-> t,
                       frame_timestamp |-> FrameTimestamp(a, sec * 1000 + off),
                       frame_storage_url |-> up.url],
              put |-> up.put]

\* the object is named after the recorded timestamp instead of the sought second
SampleSecondPathFromTimestamp(a, t, sec, d, off, u) ==
    LET none == [raised |-> FALSE, produced |-> FALSE, row |-> Null, put |-> {}]
        ts   == FrameTimestamp(a, sec * 1000 + off)
        up   == UploadFrame(file_path(t, ts \div 1000), u)
    IN  IF d = "raise" THEN [none EXCEPT !.raised = TRUE]
        ELSE IF d = "noret" THEN none
        ELSE IF d = "noframe"
        THEN (IF a = "whisper" THEN none ELSE [none EXCEPT !.raised = TRUE])
        ELSE IF d = "noencode" THEN none
        ELSE [raised |-> FALSE, produced |-> TRUE,
              row |-> [transcript_id |-> t, frame_timestamp |-> ts,
                       frame_storage_url |-> up.url],
              put |-> up.put]

\* one pass of the loop body for second sec (whisper lines 174-201, rough lines
\* 95-122): d is what the decoder and encoder do, off the reported position past the
\* sought one, u what the object store does.  [raised, produced, row, put]
SampleSecond(a, t, sec, d, off, u) ==
    LET none == [raised |-> FALSE, produced |-> FALSE, row |-> Null, put |-> {}]
        up   == UploadFrame(file_path(t, sec), u)
    IN  IF d = "raise" THEN [none EXCEPT !.raised = TRUE]
        ELSE IF d = "noret" THEN none
        ELSE IF d = "noframe"
        THEN (IF a = "whisper" THEN none ELSE [none EXCEPT !.raised = TRUE])
        ELSE IF d = "noencode" THEN none
        ELSE [raised |-> FALSE, produced |-> TRUE,
              row |-> [transcript_id |-> t,
                       frame_timestamp |-> FrameTimestamp(a, sec * 1000 + off),
                       frame_storage_url |-> up.url],
              put |-> up.put]

TmpVideo(r) == <<r, "frames">>

\* a video that does not open yields an empty result instead of an error
PFOpenReturnsEmpty(r) ==
    /\ pf[r].pc = "enter"
    /\ \E written \in BOOLEAN :
         LET v == file_bytes[r]
         IN  /\ tmpfiles' = IF written THEN tmpfiles ELSE tmpfiles \cup {<<r, "frames">>}
             /\ pf' = [pf EXCEPT ![r] =
                    IF written THEN [@ EXCEPT !.pc = "returned"]
                    ELSE [@ EXCEPT !.pc = "raised"]]
             /\ fails' = [fails EXCEPT ![r] =
                    IF ~written THEN @ \cup {"tmpfile"}
                    ELSE IF ~v.opens THEN @ \cup {"open"} ELSE @]
    /\ io' = [io EXCEPT ![r] = @ \cup {"tmpfile"}]
    /\ UNCHANGED <<pc, app, form, file_bytes, transcript, tid, response, thread,
                   transcript_table, frame_table, storage, xa>>

\* whisper lines 155-171, rough lines 80-92: the temp file is written, the video
\* opened and its duration computed
PFOpen(r) ==
    /\ pf[r].pc = "enter"
    /\ \E written \in BOOLEAN :
         LET v == file_bytes[r]
         IN  /\ tmpfiles' = IF written /\ ~v.opens THEN tmpfiles
                            ELSE tmpfiles \cup {TmpVideo(r)}
             /\ pf' = [pf EXCEPT ![r] =
                    IF written /\ v.opens
                    THEN [@ EXCEPT !.pc = "loop", !.duration = Duration(v), !.sec = 0]
                    ELSE [@ EXCEPT !.pc = "raised"]]
             /\ fails' = [fails EXCEPT ![r] =
                    IF ~written THEN @ \cup {"tmpfile"}
                    ELSE IF ~v.opens THEN @ \cup {"open"} ELSE @]
    /\ io' = [io EXCEPT ![r] = @ \cup {"tmpfile"}]
    /\ UNCHANGED <<pc, app, form, file_bytes, transcript, tid, response, thread,
                   transcript_table, frame_table, storage, xa>>

\* each row is inserted as soon as its frame is produced
PFSampleInsertEach(r) ==
    /\ pf[r].pc = "loop"
    /\ pf[r].sec < pf[r].duration
    /\ \E d \in DecodeKinds, off \in PosOffsets, u \in UploadOutcomes :
         LET out == SampleSecond(app[r], tid[r], pf[r].sec, d, off, u)
         IN  /\ pf' = [pf EXCEPT ![r] =
                    IF out.raised THEN [@ EXCEPT !.pc = "raised"]
                    ELSE IF out.produced
                    THEN [@ EXCEPT !.sec = @ + 1,
                                   !.frames_metadata = Append(@, out.row),
                                   !.encoded = IF d = "ok" THEN Append(@, pf[r].sec) ELSE @]
                    ELSE [@ EXCEPT !.sec = @ + 1,
                                   !.encoded = IF d = "ok" THEN Append(@, pf[r].sec) ELSE @]]
             /\ frame_table' = IF ~out.raised /\ out.produced
                               THEN Append(frame_table, out.row) ELSE frame_table
             /\ storage' = storage \cup out.put
             /\ tmpfiles' = IF out.raised THEN tmpfiles \ {TmpVideo(r)} ELSE tmpfiles
             /\ io' = [io EXCEPT ![r] = IF d = "ok" THEN @ \cup {"object"} ELSE @]
             /\ fails' = [fails EXCEPT ![r] =
                    IF out.raised THEN @ \cup {"decode"}
                    ELSE IF d = "ok" /\ u # "ok" THEN @ \cup {"object"} ELSE @]
    /\ UNCHANGED <<pc, app, form, file_bytes, transcript, tid, response, thread,
                   transcript_table, xa>>

\* one iteration of for sec in range(duration); an exception runs the finally block
PFSample(r) ==
    /\ pf[r].pc = "loop"
    /\ pf[r].sec < pf[r].duration
    /\ \E d \in DecodeKinds, off \in PosOffsets, u \in UploadOutcomes :
         LET out == SampleSecond(app[r], tid[r], pf[r].sec, d, off, u)
         IN  /\ pf' = [pf EXCEPT ![r] =
                    IF out.raised THEN [@ EXCEPT !.pc = "raised"]
                    ELSE IF out.produced
                    THEN [@ EXCEPT !.sec = @ + 1,
                                   !.frames_metadata = Append(@, out.row),
                                   !.encoded = IF d = "ok" THEN Append(@, pf[r].sec) ELSE @]
                    ELSE [@ EXCEPT !.sec = @ + 1,
                                   !.encoded = IF d = "ok" THEN Append(@, pf[r].sec) ELSE @]]
             /\ storage' = storage \cup out.put
             /\ tmpfiles' = IF out.raised THEN tmpfiles \ {TmpVideo(r)} ELSE tmpfiles
             /\ io' = [io EXCEPT ![r] = IF d = "ok" THEN @ \cup {"object"} ELSE @]
             /\ fails' = [fails EXCEPT ![r] =
                    IF out.raised THEN @ \cup {"decode"}
                    ELSE IF d = "ok" /\ u # "ok" THEN @ \cup {"object"} ELSE @]
    /\ UNCHANGED <<pc, app, form, file_bytes, transcript, tid, response, thread,
                   transcript_table, frame_table, xa>>

\* whisper lines 203-210, rough lines 124-128
PFReturn(r) ==
    /\ pf[r].pc = "loop"
    /\ pf[r].sec = pf[r].duration
    /\ pf' = [pf EXCEPT ![r].pc = "returned"]
    /\ tmpfiles' = tmpfiles \ {TmpVideo(r)}
    /\ UNCHANGED <<pc, app, form, file_bytes, transcript, tid, response, thread, io, fails,
                   transcript_table, frame_table, storage, xa>>

\* ------------------------------------------------------------ frame insert
\* the rows to insert once the sampler is back: none when it raised or found none
FramesToInsert(call) ==
    IF call.pc = "returned" THEN call.frames_metadata ELSE <<>>

\* whisper lines 213-231: every exception is caught and logged
BackgroundFinish(r) ==
    /\ thread[r] = "running"
    /\ pf[r].pc \in {"returned", "raised"}
    /\ \E inserted \in BOOLEAN :
         LET frames == FramesToInsert(pf[r])
         IN  /\ frame_table' = IF frames # <<>> /\ inserted
                               THEN frame_table \o frames ELSE frame_table
             /\ io' = [io EXCEPT ![r] = IF frames # <<>> THEN @ \cup {"frame_row"} ELSE @]
             /\ fails' = [fails EXCEPT ![r] =
                    IF frames # <<>> /\ ~inserted THEN @ \cup {"frame_row"} ELSE @]
    /\ thread' = [thread EXCEPT ![r] = "finished"]
    /\ UNCHANGED <<pc, app, form, file_bytes, transcript, tid, response, pf,
                   transcript_table, storage, tmpfiles, xa>>

\* rough lines 172-185: the handler itself inserts and answers
RoughFinish(r) ==
    /\ pc[r] = "frames"
    /\ pf[r].pc \in {"returned", "raised"}
    /\ \E inserted \in BOOLEAN :
         LET frames == FramesToInsert(pf[r])
             failed == pf[r].pc = "raised" \/ (frames # <<>> /\ ~inserted)
         IN  /\ frame_table' = IF frames # <<>> /\ inserted
                               THEN frame_table \o frames ELSE frame_table
             /\ io' = [io EXCEPT ![r] = IF frames # <<>> THEN @ \cup {"frame_row"} ELSE @]
             /\ fails' = [fails EXCEPT ![r] =
                    IF frames # <<>> /\ ~inserted THEN @ \cup {"frame_row"} ELSE @]
             /\ response' = [response EXCEPT ![r] =
                    IF failed THEN Error(500, "exception")
                    ELSE RoughSuccess(tid[r], Len(frames), transcript[r])]
    /\ pc' = [pc EXCEPT ![r] = "done"]
    /\ UNCHANGED <<app, form, file_bytes, transcript, tid, thread, pf,
                   transcript_table, storage, tmpfiles, xa>>

\* ----------------------------------------------------------- specification
Next ==
    \E r \in Requests :
        \/ Receive(r)
        \/ ExtractBegin(r)
        \/ ExtractEnd(r)
        \/ Transcribe(r)
        \/ InsertTranscript(r)
        \/ StartThread(r)
        \/ Respond(r)
        \/ PFOpen(r)
        \/ PFSample(r)
        \/ PFReturn(r)
        \/ BackgroundFinish(r)
        \/ RoughFinish(r)

Spec == Init /\ [][Next]_vars

\* ------------------------------------------- harness: one extraction call
\* extract_audio_from_video called once under every behaviour of its environment
InitExtract ==
    /\ pc = [r \in Requests |-> "idle"]
    /\ app = [r \in Requests |-> "whisper"]
    /\ form = [r \in Requests |-> NoForm]
    /\ file_bytes = [r \in Requests |-> NoVideo]
    /\ transcript = [r \in Requests |-> EmptyText]
    /\ tid = [r \in Requests |-> 0]
    /\ response = [r \in Requests |-> NoResponse]
    /\ thread = [r \in Requests |-> "none"]
    /\ pf = [r \in Requests |-> NoCall]
    /\ io = [r \in Requests |-> {}]
    /\ fails = [r \in Requests |-> {}]
    /\ transcript_table = <<>>
    /\ frame_table = <<>>
    /\ storage = {}
    /\ tmpfiles = {}
    /\ xa \in {[NoExtract EXCEPT !.pc = "call", !.env = e] : e \in ExtractEnvs}

\* the call up to the wait in subprocess.run
ExtractCallBegin ==
    /\ xa.pc = "call"
    /\ LET x == ExtractBeginResult(xa.env)
       IN  xa' = [xa EXCEPT !.pc = IF x.ret = "raise" THEN "done" ELSE "running",
                            !.ret = x.ret, !.files = x.files]
    /\ UNCHANGED <<pc, app, form, file_bytes, transcript, tid, response, thread, pf,
                   io, fails, transcript_table, frame_table, storage, tmpfiles>>

\* the call from the end of the wait to its return
ExtractCallEnd ==
    /\ xa.pc = "running"
    /\ LET x == extract_audio_from_video(xa.env)
       IN  xa' = [xa EXCEPT !.pc = "done", !.ret = x.ret, !.files = x.files]
    /\ UNCHANGED <<pc, app, form, file_bytes, transcript, tid, response, thread, pf,
                   io, fails, transcript_table, frame_table, storage, tmpfiles>>

NextExtract == ExtractCallBegin \/ ExtractCallEnd

SpecExtract == InitExtract /\ [][NextExtract]_vars

\* --------------------------------------- harness: one item's frame work
FpsValues == {0, 1, 2}
\* frame counts that make every duration 0..MaxSeconds, exact and one frame short
\* of the next second
FrameCounts(f) ==
    LET fe == IF f = 0 THEN DefaultFps ELSE f
    IN  {fe * s + e : s \in 0..MaxSeconds, e \in {0, fe - 1}}
HarnessVideos ==
    {Video(FALSE, 0, 0)} \cup
    UNION {{Video(TRUE, f, n) : n \in FrameCounts(f)} : f \in FpsValues}

\* request 1 just after its transcript row was inserted (id 1) and the frame work
\* was started: in whisper's thread, or inline in rough's handler
InitFrames ==
    /\ app \in {[r \in Requests |-> IF r = 1 THEN a ELSE "whisper"] : a \in Apps}
    /\ pc = [r \in Requests |-> IF r # 1 THEN "idle"
                                ELSE IF app[1] = "whisper" THEN "started" ELSE "frames"]
    /\ form = [r \in Requests |-> IF r = 1 THEN [name |-> "Ann", phone |-> "555", kind |-> "file", body |-> "fields"]
                                  ELSE NoForm]
    /\ file_bytes \in {[r \in Requests |-> IF r = 1 THEN v ELSE NoVideo] : v \in HarnessVideos}
    /\ transcript = [r \in Requests |-> IF r = 1 THEN segments_to_timestamped_text(Segments(1))
                                        ELSE EmptyText]
    /\ tid = [r \in Requests |-> IF r = 1 THEN 1 ELSE 0]
    /\ response = [r \in Requests |-> NoResponse]
    /\ thread = [r \in Requests |-> IF r = 1 /\ app[1] = "whisper" THEN "running" ELSE "none"]
    /\ pf = [r \in Requests |-> IF r = 1 THEN Called ELSE NoCall]
    /\ io = [r \in Requests |-> IF r # 1 THEN {}
                                ELSE IF app[1] = "whisper"
                                THEN {"tmpfile", "subprocess", "audio", "stt", "transcript_row"}
                                ELSE {"stt", "transcript_row"}]
    /\ fails = [r \in Requests |-> {}]
    /\ transcript_table = <<[id |-> 1, name |-> "Ann", phoneNumber |-> "555",
                             transcript |-> segments_to_timestamped_text(Segments(1))]>>
    /\ frame_table = <<>>
    /\ storage = {}
    /\ tmpfiles = {}
    /\ xa = NoExtract

NextFrames ==
    \E r \in Requests :
        \/ Respond(r)
        \/ PFOpen(r)
        \/ PFSample(r)
        \/ PFReturn(r)
        \/ BackgroundFinish(r)
        \/ RoughFinish(r)

SpecFrames == InitFrames /\ [][NextFrames]_vars

\* the thread of a frame task keeps being scheduled and the calls it makes return:
\* each step of the task that stays possible is eventually taken
FrameFairness ==
    \A r \in Requests :
        /\ WF_vars(PFOpen(r))
        /\ WF_vars(PFSample(r))
        /\ WF_vars(PFReturn(r))
        /\ WF_vars(BackgroundFinish(r))

SpecFramesFair == InitFrames /\ [][NextFrames]_vars /\ FrameFairness

\* ================================================================= claims
TranscriptIds == {transcript_table[i].id : i \in DOMAIN transcript_table}
FrameRowsOf(t) == SelectSeq(frame_table, LAMBDA row : row.transcript_id = t)
TranscriptRowOf(t) == {transcript_table[i] : i \in {j \in DOMAIN transcript_table : transcript_table[j].id = t}}
FrameWorkDone(r) == pf[r].pc # "none" \/ thread[r] # "none"
                    \/ io[r] \cap {"object", "frame_row"} # {}

\* C1: every frame row (and every stored frame object) bears the id of a transcript
\* row that was inserted, and a request whose transcript insert failed (it raised or
\* returned no row) does no frame sampling, upload or insert.
C1_FramesOnlyForInsertedTranscripts ==
    /\ \A i \in DOMAIN frame_table : frame_table[i].transcript_id \in TranscriptIds
    /\ \A p \in storage : p.dir \in TranscriptIds
    /\ \A r \in Requests :
         /\ "transcript_row" \in fails[r] => tid[r] = 0 /\ ~FrameWorkDone(r)
         /\ FrameWorkDone(r) => tid[r] \in TranscriptIds

\* a frame row is persisted while another request's transcript insert has failed
C1_Witness ==
    /\ frame_table # <<>>
    /\ \E r \in Requests : "transcript_row" \in fails[r] /\ pc[r] = "done"

\* C2 as stated: a failed speech-to-text call does not abort the item; the sentinel
\* transcript is inserted, frame work is launched and the caller gets no error.
C2_Original ==
    \A r \in Requests :
        "stt" \in fails[r] /\ pc[r] = "done" =>
            /\ response[r].status = 200
            /\ \E row \in TranscriptRowOf(tid[r]) : row.transcript = NoAudioSentinel
            /\ FrameWorkDone(r)

\* C2 amended: a failed speech-to-text call ends the request with an error response
\* (500); no transcript row is inserted for it and no frame work is started.  The
\* sentinel transcript is used only when extraction yields no audio, in which case no
\* speech-to-text call was made.
C2_SttFailureAborts ==
    \A r \in Requests :
        /\ "stt" \in fails[r] =>
              /\ pc[r] = "done"
              /\ response[r].status = 500
              /\ tid[r] = 0
              /\ "transcript_row" \notin io[r]
              /\ ~FrameWorkDone(r)
        /\ transcript[r] = NoAudioSentinel => "stt" \notin io[r]

\* one request was aborted by a failed speech-to-text call while another one
\* persisted the sentinel transcript
C2_Witness ==
    /\ \E r \in Requests : "stt" \in fails[r] /\ response[r].status = 500
    /\ \E r \in Requests : \E row \in TranscriptRowOf(tid[r]) : row.transcript = NoAudioSentinel

\* the frame work of a request is over: whisper's thread has finished, or rough's
\* handler has come back from sampling and inserted
FrameTaskFinished(r) == thread[r] = "finished" \/ (app[r] = "rough" /\ pf[r].pc # "none" /\ pc[r] = "done")
ResponseReturned(r) == pc[r] = "done"

\* C3 as stated: in every interleaving the response is returned before the item's
\* frame task finishes.
C3_Original ==
    \A r \in Requests : FrameTaskFinished(r) => ResponseReturned(r)

\* C3 amended: in video-audio-whisper.py the handler never waits on the frame task:
\* once the thread is started the response can be returned whatever the task's
\* state, so the response may come before, during or after the task's end; in
\* rough.py there is no background task and a success response is returned only
\* after sampling has returned.
C3_HandlerNeverWaits ==
    \A r \in Requests :
        /\ app[r] = "whisper" /\ pc[r] = "started" => ENABLED Respond(r)
        /\ app[r] = "rough" => thread[r] = "none"
        /\ app[r] = "rough" /\ response[r].status = 200 => pf[r].pc = "returned"

\* one response was returned while its task still runs, and one task finished before
\* its response was returned
C3_Witness ==
    /\ \E r \in Requests : ResponseReturned(r) /\ thread[r] = "running" /\ pf[r].pc = "loop"
    /\ \E r \in Requests : ~ResponseReturned(r) /\ thread[r] = "finished"

Abs(n) == IF n < 0 THEN -n ELSE n
StoredPathsOf(t) == {p \in storage : p.dir = t}
FrameInsertDone(r) == "frame_row" \in io[r] \ fails[r]
FrameWorkOver(r) == IF app[r] = "whisper" THEN thread[r] = "finished" ELSE pc[r] = "done"

\* C4: every frame that was decoded and encoded has its row in the sampler's result,
\* with a null URL when its upload (or the URL lookup) failed; the rows inserted
\* for the item are exactly that result, so when every upload fails as many rows are
\* persisted as frames were encoded, all with a null URL.
C4_UploadFailureKeepsFrame ==
    \A r \in Requests :
        LET c == pf[r]
        IN  /\ c.pc \in {"loop", "returned"} =>
                 /\ Len(c.frames_metadata) = Len(c.encoded)
                 /\ \A i \in DOMAIN c.frames_metadata :
                      LET path == file_path(tid[r], c.encoded[i])
                          url  == c.frames_metadata[i].frame_storage_url
                      IN  /\ path \notin storage => url = Null
                          /\ url # Null => url = get_public_url(path) /\ path \in storage
            /\ FrameInsertDone(r) =>
                 /\ FrameRowsOf(tid[r]) = c.frames_metadata
                 /\ Len(FrameRowsOf(tid[r])) = Len(c.encoded)
                 /\ StoredPathsOf(tid[r]) = {} =>
                      \A i \in DOMAIN FrameRowsOf(tid[r]) :
                          FrameRowsOf(tid[r])[i].frame_storage_url = Null

\* two frames were encoded, both uploads failed, and both rows are persisted
C4_Witness ==
    \E r \in Requests :
        /\ FrameInsertDone(r)
        /\ Len(pf[r].encoded) >= 2
        /\ StoredPathsOf(tid[r]) = {}
        /\ Len(FrameRowsOf(tid[r])) = Len(pf[r].encoded)
        /\ \A i \in DOMAIN FrameRowsOf(tid[r]) :
              FrameRowsOf(tid[r])[i].frame_storage_url = Null

\* C5 as stated: the timestamps recorded for an item are whole seconds in
\* 0..durationSeconds-1, strictly ascending, each the second that was sought.
C5_Original ==
    \A r \in Requests :
        LET c == pf[r]
        IN  \A i \in DOMAIN c.frames_metadata :
                LET ts == c.frames_metadata[i].frame_timestamp
                IN  /\ ts % 1000 = 0
                    /\ ts \div 1000 \in 0..(c.duration - 1)
                    /\ ts = 1000 * c.encoded[i]
                    /\ \A j \in DOMAIN c.frames_metadata :
                         i < j => ts < c.frames_metadata[j].frame_timestamp

\* C5 amended: the seconds sought for the frames of one item are integers in
\* 0..durationSeconds-1, strictly ascending without duplicates, and they name the
\* storage paths; the recorded frame_timestamp is the position the decoder reports
\* after the read, rounded to the nearest whole second with a half going to the even
\* one in video-audio-whisper.py, and kept to the millisecond in rough.py, so it can
\* differ from the sought second, repeat, or equal durationSeconds.
C5_TimestampFromDecoder ==
    \A r \in Requests :
        LET c == pf[r]
            v == file_bytes[r]
        IN  c.pc \in {"loop", "returned", "raised"} =>
              /\ Len(c.frames_metadata) = Len(c.encoded)
              /\ \A i \in DOMAIN c.encoded :
                   /\ c.encoded[i] >= 0
                   /\ (c.encoded[i] + 1) * EffectiveFps(v) <= v.frames
                   /\ \A j \in DOMAIN c.encoded : i < j => c.encoded[i] < c.encoded[j]
              /\ \A i \in DOMAIN c.frames_metadata :
                   LET ts  == c.frames_metadata[i].frame_timestamp
                       url == c.frames_metadata[i].frame_storage_url
                   IN  /\ \E off \in PosOffsets :
                            LET pos == 1000 * c.encoded[i] + off
                            IN  IF app[r] = "whisper"
                                THEN /\ ts % 1000 = 0
                                     /\ \/ 2 * Abs(ts - pos) < 1000
                                        \/ Abs(ts - pos) = 500 /\ (ts \div 1000) % 2 = 0
                                ELSE ts = pos
                       /\ url # Null => url.path = file_path(tid[r], c.encoded[i])

\* whisper recorded the same timestamp for two frames of one item
C5_Witness ==
    /\ \E r \in Requests :
         /\ app[r] = "whisper"
         /\ pf[r].pc = "returned"
         /\ \E i, j \in DOMAIN pf[r].frames_metadata :
              /\ i < j
              /\ pf[r].frames_metadata[i].frame_timestamp = pf[r].frames_metadata[j].frame_timestamp

\* C6 as stated: when the per-second loop produces no frame and the video has a
\* frame, the sampler produces exactly one frame, with timestamp 0.
C6_Original ==
    \A r \in Requests :
        pf[r].pc = "returned" /\ file_bytes[r].frames >= 1 /\ pf[r].encoded = <<>> =>
            /\ Len(pf[r].frames_metadata) = 1
            /\ pf[r].frames_metadata[1].frame_timestamp = 0

\* C6 amended: when the per-second loop produces no frame (the video is shorter than
\* one second, or every read or encode failed) the sampler returns an empty
\* sequence: no fallback frame is decoded, and the caller inserts no frame row.
C6_NoFallbackFrame ==
    \A r \in Requests :
        LET c == pf[r]
            v == file_bytes[r]
        IN  /\ c.pc = "returned" /\ v.frames < EffectiveFps(v) => c.encoded = <<>>
            /\ c.pc = "returned" /\ c.encoded = <<>> =>
                 /\ c.frames_metadata = <<>>
                 /\ "frame_row" \notin io[r]
                 /\ FrameRowsOf(tid[r]) = <<>>
                 /\ StoredPathsOf(tid[r]) = {}

\* the frame work of a clip under one second that holds a frame is over
C6_Witness ==
    \E r \in Requests :
        /\ FrameWorkOver(r)
        /\ pf[r].pc = "returned"
        /\ file_bytes[r].frames >= 1
        /\ file_bytes[r].frames < EffectiveFps(file_bytes[r])
        /\ pf[r].frames_metadata = <<>>

\* C7: once extract_audio_from_video or process_frames_and_upload has returned or
\* raised, none of the temporary files it created is left on disk.
C7_TempFilesRemoved ==
    \A r \in Requests :
        /\ pc[r] \notin {"idle", "read", "extracting"} =>
              <<r, "video">> \notin tmpfiles /\ <<r, "audio">> \notin tmpfiles
        /\ pf[r].pc \in {"returned", "raised"} => TmpVideo(r) \notin tmpfiles

\* C8: a request whose body could be read (it is within the size limit) and which has
\* no name, no phone or no item is rejected with a validation error (400), and
\* nothing was fetched, written, run, transcribed, inserted or uploaded for it.
C8_RejectedBeforeAnyIO ==
    \A r \in Requests :
        /\ pc[r] # "idle" /\ form[r].body # "oversize"
        /\ form[r].name = "" \/ form[r].phone = "" \/ form[r].kind = "none"
        => /\ pc[r] = "done"
           /\ response[r].status = 400
           /\ io[r] = {}
           /\ tid[r] = 0
           /\ ~FrameWorkDone(r)

\* C9 as stated: None when the utility exits non-zero, times out or leaves less than
\* 1024 bytes; audio bytes only when it succeeded and left at least 1024 bytes.
C9_Original ==
    xa.pc = "done" /\ xa.env.write /\ xa.env.mkstemp =>
        /\ xa.env.run \in {"nonzero", "timeout"} \/ xa.env.size < 1024 => xa.ret = "None"
        /\ xa.ret = "bytes" => xa.env.run = "ok" /\ xa.env.size >= 1024

\* C9 amended: with its temp files created, extract_audio_from_video never raises;
\* it returns audio bytes exactly when the utility ran to its end, whatever its exit
\* status, and the output file exists, holds more than 1000 bytes and can be read;
\* otherwise (a timeout, the utility not starting, no output, an output of at most
\* 1000 bytes, an unreadable output) it returns None.
C9_BytesOnlyAboveFloor ==
    xa.pc = "done" /\ xa.env.write /\ xa.env.mkstemp =>
        /\ xa.ret \in {"None", "bytes"}
        /\ xa.ret = "bytes" <=>
              /\ xa.env.run \in {"ok", "nonzero"}
              /\ xa.env.exists
              /\ xa.env.size > 1000
              /\ xa.env.read

\* the utility exited non-zero, left 1001 bytes, and audio bytes were returned
C9_Witness ==
    /\ xa.pc = "done"
    /\ xa.env.run = "nonzero"
    /\ xa.env.size = 1001
    /\ xa.ret = "bytes"

\* C10 as stated: when the decoder cannot open the file the sampler returns an empty
\* sequence without raising, and the request's outcome is unaffected.
C10_Original ==
    \A r \in Requests :
        "open" \in fails[r] =>
            /\ pf[r].pc = "returned"
            /\ pf[r].frames_metadata = <<>>
            /\ pc[r] = "done" => response[r].status = 200

\* C10 amended: when the decoder cannot open the file the sampler removes its temp
\* file and raises; no frame is uploaded or inserted and the transcript row stays as
\* it was inserted.  In video-audio-whisper.py the background task swallows the
\* error and the request still answers with success; in rough.py the error reaches
\* the handler, which answers with an error (500) although the transcript row stays.
C10_OpenFailureRaises ==
    \A r \in Requests :
        "open" \in fails[r] =>
            /\ pf[r].pc = "raised"
            /\ TmpVideo(r) \notin tmpfiles
            /\ "frame_row" \notin io[r]
            /\ FrameRowsOf(tid[r]) = <<>>
            /\ StoredPathsOf(tid[r]) = {}
            /\ \E row \in TranscriptRowOf(tid[r]) : row.transcript = transcript[r]
            /\ app[r] = "whisper" /\ pc[r] = "done" => response[r] = Success(tid[r], transcript[r])
            /\ app[r] = "rough" /\ pc[r] = "done" => response[r].status = 500

\* a whisper request answered with success and a rough request with an error, both
\* after the decoder failed to open their video
C10_Witness ==
    /\ \E r \in Requests :
         /\ app[r] = "whisper" /\ "open" \in fails[r]
         /\ thread[r] = "finished" /\ response[r].status = 200
    /\ \E r \in Requests :
         /\ app[r] = "rough" /\ "open" \in fails[r] /\ response[r].status = 500

\* C11 as stated: in every execution a speech-to-text request is sent for an item
\* only after audio extraction for that item returned a non-empty audio buffer.
C11_Original ==
    \A r \in Requests : "stt" \in io[r] => "audio" \in io[r]

\* C11 amended: in video-audio-whisper.py a speech-to-text request is sent for an
\* item only after extract_audio_from_video returned a non-empty audio buffer; when
\* it returned none, the sentinel transcript is taken and no request was sent.  In
\* rough.py there is no audio extraction: the video itself is sent, so every item
\* that gets past transcription had a request sent without any audio buffer.
C11_SttOnlyAfterAudio ==
    \A r \in Requests :
        /\ app[r] = "whisper" =>
              /\ "stt" \in io[r] => "audio" \in io[r]
              /\ pc[r] \notin {"idle", "read"} /\ "subprocess" \in io[r] /\ "audio" \notin io[r] =>
                    /\ "stt" \notin io[r]
                    /\ transcript[r] = NoAudioSentinel
                    /\ "stt" \notin fails[r]
        /\ app[r] = "rough" =>
              /\ "subprocess" \notin io[r] /\ "audio" \notin io[r]
              /\ transcript[r] # NoAudioSentinel
              /\ pc[r] = "transcribed" \/ tid[r] # 0 => "stt" \in io[r] \ fails[r]

\* the utility ran and left no audio for a whisper request, which went on with the
\* sentinel and no speech-to-text request, while a rough request was transcribed
\* from its video with no audio extracted
C11_Witness ==
    /\ \E r \in Requests :
         /\ app[r] = "whisper" /\ "subprocess" \in io[r] /\ "audio" \notin io[r]
         /\ pc[r] = "transcribed" /\ "stt" \notin io[r]
    /\ \E r \in Requests :
         /\ app[r] = "rough" /\ pc[r] = "transcribed"
         /\ "stt" \in io[r] /\ "audio" \notin io[r]

InsertedRow(r) == "transcript_row" \in io[r] \ fails[r]

\* C12 as stated: every transcript row carries an uploadNumber, the greatest number
\* in the store at the request's allocation plus one (1 for the first).
C12_Original ==
    \A i \in DOMAIN transcript_table :
        /\ "uploadNumber" \in DOMAIN transcript_table[i]
        /\ transcript_table[i].uploadNumber \in 1..i

\* C12 amended: no uploadNumber is allocated or stored.  The row a request inserts
\* carries only name, phoneNumber and transcript (and the id the store adds); a
\* request inserts at most one transcript row, rows of different requests bear
\* different ids, and the id is the only number a request is given.
C12_NoUploadNumber ==
    /\ \A i \in DOMAIN transcript_table :
         DOMAIN transcript_table[i] = {"id", "name", "phoneNumber", "transcript"}
    /\ Len(transcript_table) = Cardinality({r \in Requests : InsertedRow(r)})
    /\ \A r \in Requests :
         /\ InsertedRow(r) <=> tid[r] # 0
         /\ tid[r] # 0 => Cardinality(TranscriptRowOf(tid[r])) = 1
         /\ "uploadNumber" \notin DOMAIN response[r]
    /\ \A r1, r2 \in Requests : r1 # r2 /\ tid[r1] # 0 => tid[r1] # tid[r2]

\* both requests were answered with success, each with its own transcript row
C12_Witness ==
    /\ Len(transcript_table) = 2
    /\ \A r \in Requests : pc[r] = "done" /\ response[r].status = 200 /\ tid[r] # 0

NewWork(r) == io'[r] \ io[r]
FrameStep(r) ==
    \/ thread'[r] # thread[r]
    \/ pf[r].pc # "none" /\ pf'[r] # pf[r]
    \/ NewWork(r) \cap {"object", "frame_row"} # {}
    \/ TmpVideo(r) \in tmpfiles' \ tmpfiles
    \/ \E p \in storage' \ storage : p.dir = tid[r]
    \/ FrameRowsOf(tid[r])' # FrameRowsOf(tid[r])

\* C13: per item the steps come in the order fetch, transcribe, transcript insert,
\* frame-task launch, frame-row insert.  A speech-to-text call is made only with the
\* video at hand; the transcript insert starts only once transcription has produced
\* a transcript or the sentinel; no step of the frame work (thread start, temp-file
\* write, decode, upload, frame-row insert) is taken before the item's transcript
\* insert has returned an id; the frame-row insert comes after sampling returned.
C13_StepOrder ==
    [][\A r \in Requests :
          /\ NewWork(r) \cap {"subprocess", "stt"} # {} =>
                /\ pc[r] \in {"read", "extracting", "posting"} /\ ~file_bytes[r].empty
                /\ form[r].kind = "url" => "fetch" \in io[r] \ fails[r]
          /\ "subprocess" \in NewWork(r) => pc[r] = "extracting" /\ "stt" \notin io[r]
          /\ "stt" \in NewWork(r) /\ app[r] = "whisper" =>
                pc[r] = "posting" /\ "subprocess" \in io[r]
          /\ "transcript_row" \in NewWork(r) =>
                /\ pc[r] = "transcribed"
                /\ transcript[r] = NoAudioSentinel \/ "stt" \in io[r] \ fails[r]
                /\ ~FrameWorkDone(r)
          /\ FrameStep(r) =>
                /\ tid[r] # 0 /\ tid[r] \in TranscriptIds
                /\ "transcript_row" \in io[r] \ fails[r]
          /\ pf[r].pc = "none" /\ pf'[r].pc # "none" =>
                tid'[r] # 0 /\ tid'[r] \in TranscriptIds'
          /\ "frame_row" \in NewWork(r) => pf[r].pc = "returned"
      ]_vars

\* a url item went through every step: fetched, transcribed, its row inserted, and
\* a frame row inserted for it
C13_Witness ==
    \E r \in Requests :
        /\ form[r].kind = "url"
        /\ {"fetch", "stt", "transcript_row", "object", "frame_row"} \subseteq io[r] \ fails[r]
        /\ FrameRowsOf(tid[r]) # <<>>

\* C14: the frame rows of one item become visible in one insert of the whole result
\* of the sampler: at every state the rows persisted for a transcript id are none or
\* all the rows produced; the insert is issued only once sampling has returned a
\* non-empty result, it is the last thing the frame work does (so at most one is
\* issued per transcript id), and none is issued when no frame was produced or the
\* sampler raised.
C14_OneBatchInsert ==
    [][\A r \in Requests :
          /\ FrameRowsOf(tid[r]) \in {<<>>, pf[r].frames_metadata}
          /\ FrameRowsOf(tid[r]) # <<>> => FrameInsertDone(r)
          /\ "frame_row" \in io[r] =>
                /\ FrameWorkOver(r)
                /\ pf[r].pc = "returned" /\ pf[r].frames_metadata # <<>>
                /\ pf'[r] = pf[r]
                /\ FrameRowsOf(tid[r])' = FrameRowsOf(tid[r])
          /\ "frame_row" \in NewWork(r) =>
                /\ pf[r].pc = "returned" /\ pf[r].frames_metadata # <<>>
                /\ FrameRowsOf(tid[r]) = <<>>
                /\ FrameRowsOf(tid[r])' \in {<<>>, pf[r].frames_metadata}
                /\ FrameWorkOver(r)'
          /\ FrameWorkOver(r)' /\ "frame_row" \notin io'[r] => FrameRowsOf(tid[r])' = <<>>
      ]_vars

\* three frames were produced and are persisted together; before the insert none
\* of them was
C14_Witness ==
    \E r \in Requests :
        /\ FrameInsertDone(r)
        /\ Len(pf[r].frames_metadata) = 3
        /\ FrameRowsOf(tid[r]) = pf[r].frames_metadata

\* the frame work of r failed: the sampler raised (temp-file write, open, decode) or
\* the frame insert failed
FrameTaskFailed(r) == pf[r].pc = "raised" \/ "frame_row" \in fails[r]
OwnTranscriptRow(r) ==
    [id |-> tid[r], name |-> form[r].name, phoneNumber |-> form[r].phone,
     transcript |-> transcript[r]]

\* C15: a failure inside the frame work (temp-file write, video open, decode,
\* frame-row insert) is never surfaced to the caller: the request that started it
\* answers with success, and the item's transcript row stays present and unchanged.
C15_FrameFailureNotSurfaced ==
    \A r \in Requests :
        FrameTaskFailed(r) /\ pc[r] = "done" =>
            /\ response[r].status = 200
            /\ TranscriptRowOf(tid[r]) = {OwnTranscriptRow(r)}

\* C16: under fair scheduling, with calls that return, every frame task that was
\* started ends: its rows are inserted, or it found no frame, or it failed; and the
\* step that returns the response leaves the task running as it was.
C16_FrameTaskTerminates ==
    /\ \A r \in Requests :
          (thread[r] = "running") ~>
              (/\ thread[r] = "finished"
               /\ \/ FrameInsertDone(r) /\ FrameRowsOf(tid[r]) = pf[r].frames_metadata
                  \/ pf[r].pc = "returned" /\ pf[r].frames_metadata = <<>>
                  \/ FrameTaskFailed(r))
    /\ [][\A r \in Requests :
             pc[r] # "done" /\ pc'[r] = "done" /\ thread[r] = "running" =>
                 thread'[r] = "running" /\ pf'[r] = pf[r]]_vars

\* a task whose request has answered sampled two seconds and inserted its rows
C16_Witness ==
    \E r \in Requests :
        /\ thread[r] = "finished"
        /\ ResponseReturned(r)
        /\ FrameInsertDone(r)
        /\ pf[r].sec = 2 /\ Len(pf[r].frames_metadata) = 2

PersistedTexts == {transcript_table[i].transcript : i \in DOMAIN transcript_table}
\* the formatted transcripts of the answers the speech-to-text service can give
FormattedTranscripts ==
    {segments_to_timestamped_text(Segments(n)) : n \in 0..MaxSegments}

\* C17 as stated: every persisted transcript text is the formatted transcript of at
\* least one segment or exactly the sentinel "[No audio found]"; it is never the
\* empty string.
C17_Original ==
    \A t \in PersistedTexts :
        \/ t = [literal |-> "[No audio found]", lines |-> <<>>]
        \/ t.literal = "" /\ Len(t.lines) >= 1

\* C17 amended: every persisted transcript text is either the formatted transcript
\* of the segments the speech-to-text service returned, one line per segment, which
\* is the empty string when it returned none, or, in video-audio-whisper.py only and
\* only when extraction found no audio, the sentinel "[No audio found in video]".
C17_TextIsTranscriptOrSentinel ==
    \A r \in Requests :
        tid[r] # 0 =>
            \E row \in TranscriptRowOf(tid[r]) :
                /\ row.transcript = transcript[r]
                /\ IF "stt" \in io[r]
                   THEN /\ row.transcript.literal = ""
                        /\ row.transcript \in FormattedTranscripts
                   ELSE /\ app[r] = "whisper"
                        /\ "audio" \notin io[r]
                        /\ row.transcript = NoAudioSentinel

\* the empty string is persisted for an answer without segments, next to a row with
\* the sentinel
C17_Witness ==
    /\ \E r \in Requests :
         /\ "stt" \in io[r] /\ tid[r] # 0
         /\ \E row \in TranscriptRowOf(tid[r]) : row.transcript = EmptyText
    /\ NoAudioSentinel \in PersistedTexts

\* the path the i-th frame row of r's sampler was uploaded to, as the claims spell
\* it: <transcript id>/frame_<second>.jpg
UploadedPath(r, i) == [dir |-> tid[r], frame |-> pf[r].encoded[i]]

\* C18 as stated: the path of every frame row is <transcriptId>/frame_<t>.jpg with t
\* the row's own timestamp, and no two rows of an item share a timestamp.
C18_Original ==
    \A r \in Requests :
        \A i \in DOMAIN pf[r].frames_metadata :
            /\ pf[r].frames_metadata[i].frame_timestamp = 1000 * UploadedPath(r, i).frame
            /\ \A j \in DOMAIN pf[r].frames_metadata :
                  i # j => pf[r].frames_metadata[i].frame_timestamp
                             # pf[r].frames_metadata[j].frame_timestamp

\* C18 amended: the path a frame is uploaded to is <transcriptId>/frame_<sec>.jpg
\* with transcriptId the row's transcript id and sec the whole second that was
\* sought, which need not be the row's timestamp.  Within one item no two rows share
\* a path, every object stored for the item lies at the path of one of its encoded
\* frames, and no path is uploaded to twice; two rows may share a timestamp.
C18_PathFromSoughtSecond ==
    [][\A r \in Requests :
          /\ \A i \in DOMAIN pf[r].frames_metadata :
                LET row == pf[r].frames_metadata[i]
                IN  /\ row.transcript_id = tid[r]
                    /\ row.frame_storage_url # Null =>
                          /\ row.frame_storage_url = [bucket |-> Bucket, path |-> UploadedPath(r, i)]
                          /\ UploadedPath(r, i) \in storage
                    /\ \A j \in DOMAIN pf[r].frames_metadata :
                          i # j => UploadedPath(r, i) # UploadedPath(r, j)
          /\ tid[r] # 0 =>
                StoredPathsOf(tid[r]) \subseteq {UploadedPath(r, i) : i \in DOMAIN pf[r].encoded}
          /\ pf'[r].encoded # pf[r].encoded =>
                /\ pf'[r].encoded = Append(pf[r].encoded, pf[r].sec)
                /\ [dir |-> tid[r], frame |-> pf[r].sec] \notin storage
                /\ storage' \subseteq storage \cup {[dir |-> tid[r], frame |-> pf[r].sec]}
      ]_vars

\* rough recorded 1.5 s for the frame stored as frame_1.jpg, after frame_0.jpg
C18_Witness ==
    \E r \in Requests :
        /\ app[r] = "rough"
        /\ Len(pf[r].frames_metadata) >= 2
        /\ pf[r].frames_metadata[2].frame_timestamp = 1500
        /\ pf[r].frames_metadata[2].frame_storage_url = [bucket |-> Bucket, path |-> [dir |-> tid[r], frame |-> 1]]
        /\ [dir |-> tid[r], frame |-> 0] \in storage

\* C19: the answer agrees with what was persisted: a request answered with an error
\* has no transcript row, and a request answered with success has exactly one, whose
\* id and text are the ones in the answer.
C19_ResponseAgreesWithStore ==
    \A r \in Requests :
        pc[r] = "done" =>
            /\ response[r].status # 200 => ~InsertedRow(r) /\ TranscriptRowOf(tid[r]) = {}
            /\ response[r].status = 200 =>
                  /\ InsertedRow(r)
                  /\ response[r].transcript_id = tid[r]
                  /\ TranscriptRowOf(tid[r]) = {OwnTranscriptRow(r)}
                  /\ response[r].transcript = OwnTranscriptRow(r).transcript

\* a step of r's frame work: of its sampler, of its thread, or of rough's handler
\* after the sampler
TaskStep(r) ==
    \/ pf[r].pc # "none" /\ pf'[r] # pf[r]
    \/ thread[r] = "running" /\ thread'[r] # thread[r]
    \/ pc[r] = "frames" /\ pc'[r] # pc[r]
ObjectsOfFrames(r) == {[dir |-> tid[r], frame |-> pf[r].encoded[i]] : i \in DOMAIN pf[r].encoded}

\* C20: with requests and their frame tasks interleaved in any way, a task writes
\* only frame rows and objects bearing the transcript id it was started with, no two
\* tasks write the same path, a step of one task changes nothing another request or
\* task holds, and the stores hold, per request, what that request alone produces:
\* its own transcript row, none or all of its sampler's rows, and objects of its own
\* frames only, so that they equal those of a run of the same requests one after
\* another up to the ids the store assigns.
C20_TasksDoNotInterfere ==
    [][/\ \A r \in Requests :
             /\ \A i \in DOMAIN pf[r].frames_metadata :
                   pf[r].frames_metadata[i].transcript_id = tid[r]
             /\ \A q \in Requests \ {r} :
                   tid[r] # 0 => /\ tid[q] # tid[r]
                                 /\ ObjectsOfFrames(r) \cap ObjectsOfFrames(q) = {}
             /\ tid[r] # 0 =>
                   /\ TranscriptRowOf(tid[r]) = {OwnTranscriptRow(r)}
                   /\ FrameRowsOf(tid[r]) \in {<<>>, pf[r].frames_metadata}
                   /\ StoredPathsOf(tid[r]) \subseteq ObjectsOfFrames(r)
             /\ TaskStep(r) =>
                   /\ \A p \in storage' \ storage : p.dir = tid[r]
                   /\ storage \subseteq storage'
                   /\ frame_table' \in {frame_table, frame_table \o pf[r].frames_metadata}
                   /\ transcript_table' = transcript_table
                   /\ \A q \in Requests \ {r} :
                         /\ pf'[q] = pf[q] /\ thread'[q] = thread[q] /\ pc'[q] = pc[q]
                         /\ tid'[q] = tid[q] /\ response'[q] = response[q]
                         /\ file_bytes'[q] = file_bytes[q] /\ transcript'[q] = transcript[q]
       /\ storage = UNION {StoredPathsOf(tid[r]) : r \in Requests}
       /\ \A i \in DOMAIN frame_table :
             \E r \in Requests : tid[r] # 0 /\ frame_table[i].transcript_id = tid[r]
       /\ \A i \in DOMAIN transcript_table :
             \E r \in Requests : transcript_table[i] = OwnTranscriptRow(r)
      ]_vars

\* the request whose transcript row came second has its frame row and object in the
\* stores while the task of the first, which has stored frame_0.jpg too, still runs
C20_Witness ==
    \E r, q \in Requests :
        /\ tid[r] = 1 /\ tid[q] = 2
        /\ thread[r] = "running" /\ pf[r].pc = "loop"
        /\ [dir |-> 1, frame |-> 0] \in storage
        /\ thread[q] = "finished" /\ FrameInsertDone(q)
        /\ [dir |-> 2, frame |-> 0] \in storage
        /\ Len(FrameRowsOf(2)) = 1

====
